---- MODULE Spec2Model ----
(***************************************************************************)
(* MTCGenerator (mtc-generator.js): a MIDI Time Code generator.  The       *)
(* object holds an hours:minutes:seconds:frames counter, a frame rate and  *)
(* a quarter-frame cursor; start() sends a full-frame SysEx and arms a     *)
(* setInterval timer whose callback sends one quarter-frame piece per      *)
(* tick.                                                                   *)
(*                                                                         *)
(* Frame rates are held in hundredths of a frame per second, so that the   *)
(* rate 29.97 of the source is the integer 2997 and 30 is 3000.            *)
(*                                                                         *)
(* Every method is a function from an object-and-environment record to the *)
(* record after the call; an action applies one method to the current      *)
(* state.  A method that calls another method applies that function.       *)
(***************************************************************************)
EXTENDS Integers, Sequences, FiniteSets, TLC

VARIABLES
    running,      \* this.running
    frameRate,    \* this.frameRate, in hundredths of a frame per second
    hours,        \* this.hours
    minutes,      \* this.minutes
    seconds,      \* this.seconds
    frames,       \* this.frames
    quarterFrame, \* this.quarterFrame
    timer,        \* this.timer: id of the last interval created, 0 = undefined
    timers,       \* the event loop's active intervals: records [id, interval]
    portOpen,     \* this.output: TRUE while the port is open
    closeCalls,   \* number of closePort() invocations received by the sink
    exited,       \* process.exit() has run
    emitted,      \* the messages handed to output.sendMessage by the last call
    err,          \* the exception the last call threw, "none" if it returned
    call,         \* the last call: [op, args]
    ticks,        \* timer callbacks run since the last setPosition (or construction)
    advances      \* timecode changes made by those callbacks

obj  == <<running, frameRate, hours, minutes, seconds, frames, quarterFrame, timer>>
env  == <<timers, portOpen, closeCalls, exited>>
vars == <<running, frameRate, hours, minutes, seconds, frames, quarterFrame, timer,
          timers, portOpen, closeCalls, exited, emitted, err, call, ticks, advances>>

----------------------------------------------------------------------------
\* Bounds of the model.

\* timer callbacks explored after one setPosition: a full sweep and one more
MaxTicks == 9

\* intervals the event loop may hold at once
MaxTimers == 2

\* explicit close() calls explored
MaxClose == 1

----------------------------------------------------------------------------
\* Arithmetic of the source's expressions.

RECURSIVE BitAnd(_, _)
BitAnd(a, b) ==
    IF a = 0 \/ b = 0 THEN 0
    ELSE (a % 2) * (b % 2) + 2 * BitAnd(a \div 2, b \div 2)

RECURSIVE BitOr(_, _)
BitOr(a, b) ==
    IF a = 0 THEN b
    ELSE IF b = 0 THEN a
    ELSE (IF a % 2 = 1 \/ b % 2 = 1 THEN 1 ELSE 0) + 2 * BitOr(a \div 2, b \div 2)

Shl(a, n) == a * (2 ^ n)

Shr(a, n) == a \div (2 ^ n)

\* [24, 25, 29.97, 30]
ValidRates == {2400, 2500, 2997, 3000}

\* frames >= frameRate, with the rate in hundredths
ReachedRate(f, rate) == f * 100 >= rate

\* Math.floor(1000 / (frameRate * 4))
Interval(rate) == (1000 * 100) \div (rate * 4)

\* toBCD without the mask
toBCD_unmasked(value) == BitOr(Shl(value \div 10, 4), value % 10)

\* toBCD(value)
toBCD(value) == BitAnd(BitOr(Shl(value \div 10, 4), value % 10), 127)

\* rateCode taking 29.97 for 30
rateCode_noDropFrame(rate) ==
    IF rate = 2400 THEN 0
    ELSE IF rate = 2500 THEN 1
    ELSE 3

\* rateCode of sendFullFrame
rateCode(rate) ==
    IF rate = 2400 THEN 0
    ELSE IF rate = 2500 THEN 1
    ELSE IF rate = 2997 THEN 2
    ELSE 3

\* the fullFrame array of sendFullFrame
fullFrame(s) ==
    << 240, 127, 127, 1, 1,
       BitOr(toBCD(s.hours), Shl(rateCode(s.frameRate), 5)),
       toBCD(s.minutes),
       toBCD(s.seconds),
       toBCD(s.frames),
       247 >>

\* pieces with the rate code in bits 1 and 2 of piece 7
pieces_withRate(s, k) ==
    CASE k = 0 -> BitAnd(s.frames, 15)
      [] k = 1 -> Shr(BitAnd(s.frames, 240), 4)
      [] k = 2 -> BitAnd(s.seconds, 15)
      [] k = 3 -> Shr(BitAnd(s.seconds, 240), 4)
      [] k = 4 -> BitAnd(s.minutes, 15)
      [] k = 5 -> Shr(BitAnd(s.minutes, 240), 4)
      [] k = 6 -> BitAnd(s.hours, 15)
      [] OTHER -> BitOr(Shr(BitAnd(s.hours, 240), 4), Shl(rateCode(s.frameRate), 1))

\* the pieces array of sendQuarterFrame, indexed from 0
pieces(s, k) ==
    CASE k = 0 -> BitAnd(s.frames, 15)
      [] k = 1 -> Shr(BitAnd(s.frames, 240), 4)
      [] k = 2 -> BitAnd(s.seconds, 15)
      [] k = 3 -> Shr(BitAnd(s.seconds, 240), 4)
      [] k = 4 -> BitAnd(s.minutes, 15)
      [] k = 5 -> Shr(BitAnd(s.minutes, 240), 4)
      [] k = 6 -> BitAnd(s.hours, 15)
      [] OTHER -> Shr(BitAnd(s.hours, 240), 4)

\* [0xF1, (this.quarterFrame << 4) | pieces[this.quarterFrame]]
quarterFrameMsg(s) ==
    << 241, BitOr(Shl(s.quarterFrame, 4), pieces(s, s.quarterFrame)) >>

----------------------------------------------------------------------------
\* The methods of MTCGenerator, as functions of the record s of the object's
\* fields and its environment.  s.out collects the messages handed to
\* output.sendMessage during the call and s.threw the exception that ended it.

\* advanceFrame with the test of hours written > where the source has >=
advanceFrame_lateHourWrap(s) ==
    LET f1 == s.frames + 1 IN
    IF ~ReachedRate(f1, s.frameRate) THEN [s EXCEPT !.frames = f1]
    ELSE LET s1 == s.seconds + 1 IN
         IF ~(s1 >= 60) THEN [s EXCEPT !.frames = 0, !.seconds = s1]
         ELSE LET m1 == s.minutes + 1 IN
              IF ~(m1 >= 60) THEN [s EXCEPT !.frames = 0, !.seconds = 0, !.minutes = m1]
              ELSE LET h1 == s.hours + 1 IN
                   [s EXCEPT !.frames = 0, !.seconds = 0, !.minutes = 0,
                             !.hours = IF h1 > 24 THEN 0 ELSE h1]

\* the timecode one frame later: the nested increments of sendQuarterFrame
advanceFrame(s) ==
    LET f1 == s.frames + 1 IN
    IF ~ReachedRate(f1, s.frameRate) THEN [s EXCEPT !.frames = f1]
    ELSE LET s1 == s.seconds + 1 IN
         IF ~(s1 >= 60) THEN [s EXCEPT !.frames = 0, !.seconds = s1]
         ELSE LET m1 == s.minutes + 1 IN
              IF ~(m1 >= 60) THEN [s EXCEPT !.frames = 0, !.seconds = 0, !.minutes = m1]
              ELSE LET h1 == s.hours + 1 IN
                   [s EXCEPT !.frames = 0, !.seconds = 0, !.minutes = 0,
                             !.hours = IF h1 >= 24 THEN 0 ELSE h1]

\* this.output.sendMessage(msg): ok is whether the sink accepts the write
sendMessage(s, msg, ok) ==
    IF ok THEN [s EXCEPT !.out = Append(@, msg)]
    ELSE [s EXCEPT !.threw = "WriteError"]

sendFullFrame(s, ok) == sendMessage(s, fullFrame(s), ok)

\* sendQuarterFrame advancing the timecode every fourth piece
sendQuarterFrame_everyFourth(s, ok) ==
    LET sent == sendMessage(s, quarterFrameMsg(s), ok) IN
    IF sent.threw # "none" THEN sent
    ELSE LET next == [sent EXCEPT !.quarterFrame = (s.quarterFrame + 1) % 8] IN
         IF next.quarterFrame % 4 = 0 THEN advanceFrame(next) ELSE next

\* the body of the timer callback
sendQuarterFrame(s, ok) ==
    LET sent == sendMessage(s, quarterFrameMsg(s), ok) IN
    IF sent.threw # "none" THEN sent
    ELSE LET next == [sent EXCEPT !.quarterFrame = (s.quarterFrame + 1) % 8] IN
         IF next.quarterFrame = 0 THEN advanceFrame(next) ELSE next

\* setInterval(callback, interval): a fresh handle, the interval becomes active
setInterval(s, interval) ==
    LET used == {t.id : t \in s.timers}
        id   == CHOOSE i \in 1..(Cardinality(used) + 1) : i \notin used
    IN  [s EXCEPT !.timer = id,
                  !.timers = @ \cup {[id |-> id, interval |-> interval]}]

\* clearInterval(handle): no effect for undefined or an interval already cleared
clearInterval(s, handle) ==
    [s EXCEPT !.timers = {t \in @ : t.id # handle}]

\* start without the test of this.running
start_unguarded(s, ok) ==
    LET sent == sendFullFrame([s EXCEPT !.running = TRUE], ok) IN
    IF sent.threw # "none" THEN sent
    ELSE setInterval(sent, Interval(sent.frameRate))

\* start arming the interval without sending the full frame
start_silent(s, ok) ==
    IF s.running THEN s
    ELSE setInterval([s EXCEPT !.running = TRUE], Interval(s.frameRate))

\* start rewinding the cursor before its full frame
start_rewind(s, ok) ==
    IF s.running THEN s
    ELSE LET sent == sendFullFrame([s EXCEPT !.running = TRUE, !.quarterFrame = 0], ok) IN
         IF sent.threw # "none" THEN sent
         ELSE setInterval(sent, Interval(sent.frameRate))

start(s, ok) ==
    IF s.running THEN s
    ELSE LET sent == sendFullFrame([s EXCEPT !.running = TRUE], ok) IN
         IF sent.threw # "none" THEN sent
         ELSE setInterval(sent, Interval(sent.frameRate))

\* stop without clearInterval
stop_noClear(s) ==
    IF ~s.running THEN s
    ELSE [s EXCEPT !.running = FALSE]

\* stop rewinding the cursor
stop_rewind(s) ==
    IF ~s.running THEN s
    ELSE clearInterval([s EXCEPT !.running = FALSE, !.quarterFrame = 0], s.timer)

stop(s) ==
    IF ~s.running THEN s
    ELSE clearInterval([s EXCEPT !.running = FALSE], s.timer)

\* setPosition without the reset of the cursor
setPosition_keepCursor(s, h, m, sec, f, ok) ==
    LET set == [s EXCEPT !.hours = h, !.minutes = m, !.seconds = sec, !.frames = f]
    IN  IF set.running THEN sendFullFrame(set, ok) ELSE set

setPosition(s, h, m, sec, f, ok) ==
    LET set == [s EXCEPT !.hours = h, !.minutes = m, !.seconds = sec,
                         !.frames = f, !.quarterFrame = 0]
    IN  IF set.running THEN sendFullFrame(set, ok) ELSE set

\* setFrameRate without the validation
setFrameRate_unchecked(s, rate) == [s EXCEPT !.frameRate = rate]

\* setFrameRate re-arming a running interval at the new rate
setFrameRate_restart(s, rate) ==
    IF rate \notin ValidRates THEN [s EXCEPT !.threw = "InvalidFrameRate"]
    ELSE [s EXCEPT !.frameRate = rate,
                   !.timers = {[id |-> t.id, interval |-> Interval(rate)] : t \in @}]

setFrameRate(s, rate) ==
    IF rate \notin ValidRates THEN [s EXCEPT !.threw = "InvalidFrameRate"]
    ELSE [s EXCEPT !.frameRate = rate]

\* this.output.closePort()
closePort(s) == [s EXCEPT !.portOpen = FALSE, !.closeCalls = @ + 1]

close(s) == closePort(stop(s))

\* process.exit(0): the process and its event loop are gone
processExit(s) == [s EXCEPT !.exited = TRUE, !.timers = {}]

handleExit(s) == processExit(close(stop(s)))

\* process.on('uncaughtException'): an exception leaving a timer callback
uncaughtException(s) == handleExit(s)

----------------------------------------------------------------------------
\* The state machine: one action per public method, per timer callback and
\* per signal.

\* the object and its environment before a call
Cur ==
    [running |-> running, frameRate |-> frameRate, hours |-> hours,
     minutes |-> minutes, seconds |-> seconds, frames |-> frames,
     quarterFrame |-> quarterFrame, timer |-> timer, timers |-> timers,
     portOpen |-> portOpen, closeCalls |-> closeCalls, exited |-> exited,
     out |-> <<>>, threw |-> "none"]

\* the state after a call that left the record s
Becomes(after) ==
    \E s \in {after} :
        /\ running' = s.running
        /\ frameRate' = s.frameRate
        /\ hours' = s.hours
        /\ minutes' = s.minutes
        /\ seconds' = s.seconds
        /\ frames' = s.frames
        /\ quarterFrame' = s.quarterFrame
        /\ timer' = s.timer
        /\ timers' = s.timers
        /\ portOpen' = s.portOpen
        /\ closeCalls' = s.closeCalls
        /\ exited' = s.exited
        /\ emitted' = s.out
        /\ err' = s.threw

Called(op, args) == call' = [op |-> op, args |-> args]

\* the arguments the callers pass: the ends of each documented range, the
\* frames being the first and the last frame of a second at the given rate
PosHours == {0, 23}
PosMinutes == {0, 59}
PosSeconds == {0, 59}
PosFrames(rate) ==
    {f \in 0..29 : ~ReachedRate(f, rate) /\ (f = 0 \/ ReachedRate(f + 1, rate))}
RateInputs == ValidRates \cup {2800}

Init ==
    /\ running = FALSE
    /\ frameRate = 3000
    /\ hours = 0
    /\ minutes = 0
    /\ seconds = 0
    /\ frames = 0
    /\ quarterFrame = 0
    /\ timer = 0
    /\ timers = {}
    /\ portOpen = TRUE
    /\ closeCalls = 0
    /\ exited = FALSE
    /\ emitted = <<>>
    /\ err = "none"
    /\ call = [op |-> "constructor", args |-> <<>>]
    /\ ticks = 0
    /\ advances = 0

Start(ok) ==
    /\ ~exited
    /\ Cardinality(timers) < MaxTimers
    /\ Becomes(start(Cur, ok))
    /\ Called("start", <<>>)
    /\ UNCHANGED <<ticks, advances>>

Stop ==
    /\ ~exited
    /\ Becomes(stop(Cur))
    /\ Called("stop", <<>>)
    /\ UNCHANGED <<ticks, advances>>

\* an active interval fires; an exception leaving the callback is uncaught
Tick(ok) ==
    /\ ~exited
    /\ timers # {}
    /\ ticks < MaxTicks
    /\ LET r == sendQuarterFrame(Cur, ok) IN
       Becomes(IF r.threw # "none" THEN uncaughtException(r) ELSE r)
    /\ Called("tick", <<>>)
    /\ ticks' = ticks + 1
    /\ advances' = IF <<hours', minutes', seconds', frames'>>
                        # <<hours, minutes, seconds, frames>>
                   THEN advances + 1 ELSE advances

\* the caller keeps to the documented ranges, frames below the current rate
SetPosition(ok) ==
    \E h \in PosHours, m \in PosMinutes, sec \in PosSeconds,
       f \in PosFrames(frameRate) :
        /\ ~exited
        /\ Becomes(setPosition(Cur, h, m, sec, f, ok))
        /\ Called("setPosition", <<h, m, sec, f>>)
        /\ ticks' = 0
        /\ advances' = 0

SetFrameRate ==
    \E rate \in RateInputs :
        /\ ~exited
        /\ Becomes(setFrameRate(Cur, rate))
        /\ Called("setFrameRate", <<rate>>)
        /\ UNCHANGED <<ticks, advances>>

Close ==
    /\ ~exited
    /\ closeCalls < MaxClose
    /\ Becomes(close(Cur))
    /\ Called("close", <<>>)
    /\ UNCHANGED <<ticks, advances>>

\* SIGINT or SIGTERM
Signal ==
    /\ ~exited
    /\ Becomes(handleExit(Cur))
    /\ Called("handleExit", <<>>)
    /\ UNCHANGED <<ticks, advances>>

\* the sink accepts every write
Next ==
    \/ Start(TRUE)
    \/ Stop
    \/ Tick(TRUE)
    \/ SetPosition(TRUE)
    \/ SetFrameRate
    \/ Close
    \/ Signal

Spec == Init /\ [][Next]_vars

\* the sink may refuse any write
NextFail ==
    \/ \E ok \in BOOLEAN : Start(ok)
    \/ Stop
    \/ \E ok \in BOOLEAN : Tick(ok)
    \/ \E ok \in BOOLEAN : SetPosition(ok)
    \/ SetFrameRate
    \/ Close
    \/ Signal

SpecFail == Init /\ [][NextFail]_vars

\* The encoders on their own: a stopped session left by setFrameRate(rate)
\* and setPosition(h, m, sec, f) for every hour, the ends and one inner
\* value of the other ranges and every rate, then started and ticked.
EncMinutes == {0, 2, 59}
EncSeconds == {0, 3, 59}
EncFrames(rate) == {0, 4} \cup PosFrames(rate)

InitEncode ==
    /\ running = FALSE
    /\ frameRate \in ValidRates
    /\ hours \in 0..23
    /\ minutes \in EncMinutes
    /\ seconds \in EncSeconds
    /\ frames \in EncFrames(frameRate)
    /\ quarterFrame = 0
    /\ timer = 0
    /\ timers = {}
    /\ portOpen = TRUE
    /\ closeCalls = 0
    /\ exited = FALSE
    /\ emitted = <<>>
    /\ err = "none"
    /\ call = [op |-> "setPosition", args |-> <<hours, minutes, seconds, frames>>]
    /\ ticks = 0
    /\ advances = 0

NextEncode ==
    \/ Start(TRUE)
    \/ Tick(TRUE)

SpecEncode == InitEncode /\ [][NextEncode]_vars

\* toBCD on its whole documented range: a stopped session left by
\* setPosition(0, v, 0, 0) for every v in 0..99, which the method accepts,
\* then started and ticked.
InitBCD ==
    /\ running = FALSE
    /\ frameRate = 3000
    /\ hours = 0
    /\ minutes \in 0..99
    /\ seconds = 0
    /\ frames = 0
    /\ quarterFrame = 0
    /\ timer = 0
    /\ timers = {}
    /\ portOpen = TRUE
    /\ closeCalls = 0
    /\ exited = FALSE
    /\ emitted = <<>>
    /\ err = "none"
    /\ call = [op |-> "setPosition", args |-> <<hours, minutes, seconds, frames>>]
    /\ ticks = 0
    /\ advances = 0

SpecBCD == InitBCD /\ [][NextEncode]_vars

----------------------------------------------------------------------------
\* Vocabulary of the properties.

\* frames per second counted by the timecode: 29.97 counts as 30
FrameCount(rate) == IF rate = 2997 THEN 30 ELSE rate \div 100

Normalized ==
    /\ 0 <= hours /\ hours <= 23
    /\ 0 <= minutes /\ minutes <= 59
    /\ 0 <= seconds /\ seconds <= 59
    /\ 0 <= frames /\ frames <= FrameCount(frameRate) - 1

timecode == <<hours, minutes, seconds, frames>>

\* position of a timecode in the day, in frames at the given rate
FrameIndex(tc, rate) ==
    ((tc[1] * 60 + tc[2]) * 60 + tc[3]) * FrameCount(rate) + tc[4]

\* the full-frame message for position tc at the given rate
FullFrameOf(tc, rate) ==
    fullFrame([hours |-> tc[1], minutes |-> tc[2], seconds |-> tc[3],
               frames |-> tc[4], frameRate |-> rate])

IsFullFrame(msg) == Len(msg) = 10 /\ msg[1] = 240 /\ msg[10] = 247

IsQuarterFrame(msg) == Len(msg) = 2 /\ msg[1] = 241

----------------------------------------------------------------------------
\* C1: start() is idempotent.  In every state at most one interval is active,
\* and one is active exactly when running is true; a start() issued while
\* running sends nothing, creates no interval and changes no field; a start()
\* issued while stopped sends exactly one full frame and leaves exactly one
\* interval active.
C1_StartIdempotent ==
    /\ [](Cardinality(timers) <= 1 /\ (running <=> timers # {}))
    /\ [][call'.op = "start" =>
            IF running
            THEN emitted' = <<>> /\ UNCHANGED <<obj, env>>
            ELSE /\ Len(emitted') = 1 /\ IsFullFrame(emitted'[1])
                 /\ Cardinality(timers') = 1]_vars

\* a start() issued while running, after ticks of that run
C1_Witness ==
    /\ call.op = "start" /\ emitted = <<>>
    /\ running /\ Cardinality(timers) = 1 /\ ticks > 0

\* C2: stop() cancels ticking synchronously.  While the session is stopped
\* no interval is active and no timer callback can run; a quarter frame is
\* sent only by a step taken while running; stop() leaves the session
\* stopped, and on a stopped session it changes nothing and sends nothing.
C2_StopCancels ==
    /\ [](~running => (timers = {} /\ ~ENABLED Tick(TRUE)))
    /\ [][(emitted' # <<>> /\ IsQuarterFrame(emitted'[1])) =>
            (running /\ call'.op = "tick")]_vars
    /\ [][call'.op = "stop" =>
            /\ ~running' /\ timers' = {} /\ emitted' = <<>>
            /\ (~running => UNCHANGED <<obj, env>>)]_vars

\* a stop() that ended a run in which ticks had fired
C2_Witness ==
    /\ call.op = "stop" /\ ~running /\ timers = {}
    /\ ticks > 0 /\ timer # 0

\* C3: the quarter-frame cycle.  A tick sends one quarter frame whose piece
\* index is the cursor, then sets the cursor to (cursor + 1) mod 8; the
\* timecode changes in a tick exactly when the cursor was 7, and from a
\* normalized timecode it then becomes the next frame of the day.  Counting
\* the ticks since the cursor was last set to 0, the cursor is their number
\* mod 8 and the timecode has advanced once per 8 ticks.
C3_QuarterFrameCycle ==
    /\ [][call'.op = "tick" =>
            /\ Len(emitted') = 1 /\ IsQuarterFrame(emitted'[1])
            /\ emitted'[1][2] \div 16 = quarterFrame
            /\ quarterFrame' = (quarterFrame + 1) % 8
            /\ (timecode' # timecode) <=> (quarterFrame = 7)
            /\ (quarterFrame = 7 /\ Normalized) =>
                   FrameIndex(timecode', frameRate) =
                       (FrameIndex(timecode, frameRate) + 1)
                           % (24 * 60 * 60 * FrameCount(frameRate))]_vars
    /\ [](quarterFrame = ticks % 8 /\ advances = ticks \div 8)

\* the 8th tick of a sweep that began at cursor 0
C3_Witness ==
    /\ call.op = "tick" /\ ticks = 8 /\ quarterFrame = 0 /\ advances = 1

\* C4: the timecode is normalized for the configured frame rate in every
\* state, setPosition being called inside its documented ranges.
C4_AlwaysNormalized == Normalized

\* C5: frame advance is a cascading increment with moduli frame count, 60,
\* 60, 24.  From a normalized timecode the tick that completes a sweep
\* increments frames; frames reaching the frame count resets it and
\* increments seconds; seconds reaching 60 resets it and increments minutes;
\* minutes reaching 60 resets it and increments hours; hours reaching 24
\* wraps to 0.  A field changes only if every lower field rolled over.
C5_AdvanceCascade ==
    [][(call'.op = "tick" /\ quarterFrame = 7 /\ Normalized) =>
        LET fRoll == frames + 1 = FrameCount(frameRate)
            sRoll == fRoll /\ seconds + 1 = 60
            mRoll == sRoll /\ minutes + 1 = 60
            hRoll == mRoll /\ hours + 1 = 24
        IN  /\ frames' = IF fRoll THEN 0 ELSE frames + 1
            /\ seconds' = IF sRoll THEN 0 ELSE IF fRoll THEN seconds + 1 ELSE seconds
            /\ minutes' = IF mRoll THEN 0 ELSE IF sRoll THEN minutes + 1 ELSE minutes
            /\ hours' = IF hRoll THEN 0 ELSE IF mRoll THEN hours + 1 ELSE hours
            /\ frameRate' = frameRate]_vars

\* 23:59:59:(last frame) has advanced to 00:00:00:00
C5_Witness ==
    /\ call.op = "tick" /\ ticks = 8 /\ advances = 1
    /\ timecode = <<0, 0, 0, 0>>

\* C6: setPosition(h, m, s, f) overwrites the timecode with its arguments
\* and sets the cursor to 0; it sends exactly one full frame carrying the new
\* position if the session is running and nothing if it is stopped; it
\* changes neither running, nor the frame rate, nor the intervals.
C6_SetPosition ==
    [][call'.op = "setPosition" =>
        /\ timecode' = call'.args
        /\ quarterFrame' = 0
        /\ emitted' = IF running THEN <<FullFrameOf(call'.args, frameRate)>> ELSE <<>>
        /\ UNCHANGED <<running, frameRate, timer, timers>>]_vars

\* a seek to 23:59:59:00 while running
C6_Witness ==
    /\ call.op = "setPosition" /\ call.args = <<23, 59, 59, 0>>
    /\ running /\ timers # {} /\ Len(emitted) = 1

\* C7: stop() leaves the timecode and the cursor unchanged, and a start()
\* that takes the session from stopped to running leaves them unchanged
\* too and announces that timecode in its full frame.
C7_StopStartResumes ==
    /\ [][call'.op = "stop" => UNCHANGED <<timecode, quarterFrame>>]_vars
    /\ [][(call'.op = "start" /\ ~running) =>
            /\ UNCHANGED <<timecode, quarterFrame>>
            /\ emitted' = <<FullFrameOf(timecode, frameRate)>>]_vars

\* a start() that resumes a run stopped in the middle of a sweep, after a
\* frame advance
C7_Witness ==
    /\ call.op = "start" /\ emitted # <<>> /\ running
    /\ ticks > 0 /\ quarterFrame # 0 /\ timecode # <<0, 0, 0, 0>>

\* C8: a start() that takes the session from stopped to running sends
\* exactly one full frame, carrying the current timecode and rate code; no
\* interval is active before it, so no quarter frame of the run precedes it,
\* and it leaves the session running with its interval active.
C8_StartAnnounces ==
    [][(call'.op = "start" /\ ~running) =>
        /\ timers = {} /\ ~ENABLED Tick(TRUE)
        /\ emitted' = <<FullFrameOf(timecode', frameRate')>>
        /\ running' /\ Cardinality(timers') = 1]_vars

\* a start() at 25 frames per second from 23:59:59:24
C8_Witness ==
    /\ call.op = "start" /\ running /\ Len(emitted) = 1
    /\ frameRate = 2500 /\ timecode = <<23, 59, 59, 24>>

\* C9: the sink's closePort is invoked exactly once over any sequence of
\* operations that closes the session: never more than once, and once
\* whenever the port has been closed.
C9_SinkReleasedOnce ==
    /\ closeCalls <= 1
    /\ (closeCalls = 0) <=> portOpen

\* C10: setFrameRate(rate) accepts exactly 24, 25, 29.97 and 30.  For one
\* of them it returns and the frame rate is that rate; for any other it
\* throws InvalidFrameRate, sends nothing and changes no field; the frame
\* rate is one of the four in every state.
C10_SetFrameRateValidates ==
    /\ [](frameRate \in {2400, 2500, 2997, 3000})
    /\ [][call'.op = "setFrameRate" =>
            IF call'.args[1] \in {2400, 2500, 2997, 3000}
            THEN err' = "none" /\ frameRate' = call'.args[1]
            ELSE /\ err' = "InvalidFrameRate" /\ emitted' = <<>>
                 /\ UNCHANGED <<obj, env>>]_vars

\* setFrameRate(28) rejected on a running session at 29.97
C10_Witness ==
    /\ call.op = "setFrameRate" /\ call.args = <<2800>>
    /\ err = "InvalidFrameRate" /\ frameRate = 2997 /\ running


\* the interval in milliseconds of a run started at the given rate:
\* floor(1000 / (rate x 4))
NominalInterval(rate) ==
    CASE rate = 2400 -> 10
      [] rate = 2500 -> 10
      [] rate = 2997 -> 8
      [] rate = 3000 -> 8

\* C11: a setFrameRate(rate) that returns changes only the frame rate: the
\* timecode, the cursor, running, the interval and its period, the port are
\* unchanged and nothing is sent.  The period of a run is the one computed
\* from the frame rate in force at its start().
C11_SetFrameRateFrame ==
    /\ [][(call'.op = "setFrameRate" /\ err' = "none") =>
            /\ UNCHANGED <<timecode, quarterFrame, running, timer, timers, env>>
            /\ emitted' = <<>>]_vars
    /\ [][(call'.op = "start" /\ ~running) =>
            \A t \in timers' : t.interval = NominalInterval(frameRate)]_vars

\* a running session started at 30 whose rate was then set to 24: its
\* interval still has the period of 30
C11_Witness ==
    /\ call.op = "setFrameRate" /\ err = "none" /\ running
    /\ frameRate = 2400 /\ timers # {} /\ \A t \in timers : t.interval = 8


\* two decimal digits packed in two nibbles
PackedBCD(v) == (v \div 10) * 16 + (v % 10)

\* the rate code of the full frame
RateCodeOf(rate) ==
    CASE rate = 2400 -> 0
      [] rate = 2500 -> 1
      [] rate = 2997 -> 2
      [] rate = 3000 -> 3

\* the last call was a start() that sent its full frame
Announced == call.op = "start" /\ emitted # <<>>

\* C12: full-frame encoding is bit-exact.  For every normalized timecode
\* and every valid rate the full frame of start() is the 10 bytes F0 7F 7F
\* 01 01, BCD(hours) | (rateCode << 5), BCD(minutes), BCD(seconds),
\* BCD(frames), F7, with rate codes 24 -> 0, 25 -> 1, 29.97 -> 2, 30 -> 3;
\* every byte between F0 and F7 has its high bit clear; 01:02:03:04 at 30
\* gives F0 7F 7F 01 01 61 02 03 04 F7.
C12_FullFrameBitExact ==
    Announced =>
        /\ emitted[1] = << 240, 127, 127, 1, 1,
                           BitOr(PackedBCD(hours), RateCodeOf(frameRate) * 32),
                           PackedBCD(minutes), PackedBCD(seconds),
                           PackedBCD(frames), 247 >>
        /\ \A i \in 2..9 : emitted[1][i] < 128
        /\ (timecode = <<1, 2, 3, 4>> /\ frameRate = 3000) =>
               emitted[1] = <<240, 127, 127, 1, 1, 97, 2, 3, 4, 247>>

\* the full frame of 01:02:03:04 at 30
C12_Witness ==
    /\ Announced /\ timecode = <<1, 2, 3, 4>> /\ frameRate = 3000
    /\ emitted = << <<240, 127, 127, 1, 1, 97, 2, 3, 4, 247>> >>

\* C13: the full frame is self-contained.  The map from (hours, minutes,
\* seconds, frames, rate) to the message is injective: no other hours and
\* rate give the hour byte just sent, and no other minutes, seconds or
\* frames give the byte sent for that field.  (The message is made of one
\* byte per field, the hour byte being a function of hours and rate, so the
\* map is injective exactly when each of these is.)
C13_FullFrameInjective ==
    Announced =>
        /\ \A h \in 0..23, r \in ValidRates :
               FullFrameOf(<<h, minutes, seconds, frames>>, r) = emitted[1]
                   => (h = hours /\ r = frameRate)
        /\ \A m \in 0..59 :
               FullFrameOf(<<hours, m, seconds, frames>>, frameRate) = emitted[1]
                   => m = minutes
        /\ \A sec \in 0..59 :
               FullFrameOf(<<hours, minutes, sec, frames>>, frameRate) = emitted[1]
                   => sec = seconds
        /\ \A f \in 0..(FrameCount(frameRate) - 1) :
               FullFrameOf(<<hours, minutes, seconds, f>>, frameRate) = emitted[1]
                   => f = frames

\* C14, as claimed: for every v in 0..99, toBCD(v) is ((v div 10) << 4) |
\* (v mod 10) and its high bit is 0.  The byte observed is the minutes byte
\* of the full frame sent after setPosition(0, v, 0, 0).
C14_ToBCDExact ==
    Announced =>
        /\ emitted[1][7] = PackedBCD(minutes)
        /\ emitted[1][7] < 128

\* C14, amended: for every v in 0..79, toBCD(v) is ((v div 10) << 4) |
\* (v mod 10); for every v in 0..99 its high bit is 0; for v in 80..99 the
\* mask clears bit 7, so toBCD(v) is that value less 128 and equals
\* toBCD(v - 80).
C14_ToBCDMasked ==
    Announced =>
        /\ minutes <= 79 => emitted[1][7] = PackedBCD(minutes)
        /\ emitted[1][7] < 128
        /\ minutes >= 80 =>
               /\ emitted[1][7] = PackedBCD(minutes) - 128
               /\ emitted[1][7] = PackedBCD(minutes - 80)

\* toBCD(85) is 0x05
C14_Witness ==
    /\ Announced /\ minutes = 85 /\ emitted[1][7] = 5

\* the low (k even) or high (k odd) 4 bits of frames, seconds, minutes,
\* hours for k = 0..7
Nibble(k) ==
    LET field == CASE k \in {0, 1} -> frames
                   [] k \in {2, 3} -> seconds
                   [] k \in {4, 5} -> minutes
                   [] k \in {6, 7} -> hours
    IN  IF k % 2 = 0 THEN field % 16 ELSE (field \div 16) % 16

C16_FramePerFourTicks == advances = ticks \div 4

\* C17: a write failure during a tick does not stop generation: after a
\* tick whose send threw, the session is running with its interval active,
\* the process has not exited and the cursor has advanced as after a
\* successful tick.
C17_TickSurvivesWriteError ==
    (call.op = "tick" /\ err = "WriteError") =>
        /\ running /\ timers # {} /\ ~exited
        /\ quarterFrame = ticks % 8

\* C18: a send that throws never leaves a half-running session: no state
\* has running true and no interval active, and after a call that threw a
\* write error the session is stopped, without interval, its sink released.
C18_NoHalfRunning ==
    /\ ~(running /\ timers = {})
    /\ err = "WriteError" => (~running /\ timers = {} /\ ~portOpen)

\* C19, as claimed: the cursor is 0 at every full-frame emission.
C19_CursorZeroAtFullFrame ==
    (emitted # <<>> /\ IsFullFrame(emitted[1])) => quarterFrame = 0

\* C19, amended: a full frame is sent only by setPosition() and start().
\* The one of setPosition() leaves the cursor at 0; the one of start() leaves
\* the cursor where the last stop() held it, the number of ticks since the
\* cursor was last 0, mod 8.  In a running session the cursor changes only
\* in a tick or in a call that sends a full frame, and a tick sends the
\* piece of the cursor: so the first quarter frame after a full frame carries
\* the cursor held at that full frame, 0 unless the run was stopped in the
\* middle of a sweep.
C19_CursorHeldAtFullFrame ==
    /\ [][(emitted' # <<>> /\ IsFullFrame(emitted'[1])) =>
            /\ call'.op \in {"setPosition", "start"}
            /\ call'.op = "setPosition" => quarterFrame' = 0
            /\ call'.op = "start" =>
                   (quarterFrame' = quarterFrame /\ quarterFrame' = ticks % 8)]_vars
    /\ [][(running /\ running' /\ quarterFrame' # quarterFrame) =>
            \/ call'.op = "tick"
            \/ (emitted' # <<>> /\ IsFullFrame(emitted'[1]))]_vars
    /\ [][call'.op = "tick" => emitted'[1][2] \div 16 = quarterFrame]_vars

\* the full frame of a start() that follows a stop() after 3 ticks of a sweep
C19_Witness ==
    /\ call.op = "start" /\ emitted # <<>> /\ IsFullFrame(emitted[1])
    /\ running /\ quarterFrame = 3 /\ ticks = 3

\* C20: once close() has released the sink, nothing is sent to it and no
\* interval is active.
C20_SilentAfterClose ==
    ~portOpen => (timers = {} /\ emitted = <<>>)

====
